---- MODULE Spec2Model ----
(***************************************************************************)
(* A model of nonlinear_solvers/solvers.py: newton_raphson, bisection and  *)
(* solve, each run as a sequence of loop iterations.                       *)
(*                                                                         *)
(* Floats are modelled as fixed-point numbers whose unit in the last place *)
(* is 1: +, - and the sign of a product are exact, a division rounds to    *)
(* the nearest representable number, ties to even, as IEEE 754 does.       *)
(* The caller's f is a table over the sample points Dom (the value at the  *)
(* nearest sample point is used outside Dom) that may raise an exception   *)
(* of its own at one point; df is one of a few derivative shapes.          *)
(***************************************************************************)
EXTENDS Integers, Sequences, FiniteSets, TLC

\* Largest iteration budget (max_its, max_its_n, max_its_b) a call is given.
MaxIts == 2

\* Sample points of f, and the initial values x_0, x_1 of a call.
Dom == {-2, -1, 0, 1, 2}
\* Values f takes: negative and beyond every tolerance, zero, small positive.
FNum == {-2, 0, 1}
\* Exceptions f may raise by itself (math.sqrt(-1.0): ValueError; 1/0.0:
\* ZeroDivisionError).
FaultKinds == {"ValueError", "ZeroDivisionError"}
\* Tolerances: under 1 only an exact zero converges, under 2 also |f(x)| = 1.
EpsSet == {1, 2}
\* Derivatives: a constant 1, a constant -2, 2*x (zero at 0), and one that
\* raises by itself at 0.
DfSet == {"one", "minus_two", "two_x", "recip"}
ItsSet == 1..MaxIts

VARIABLES
    call,        \* the function the caller invoked
    ftab,        \* f on Dom
    ffault,      \* where f raises, if anywhere
    df,          \* the derivative's shape
    a_x0, a_x1,  \* the arguments x_0, x_1 of the call
    eps,         \* the argument eps
    max_its_n,   \* max_its of newton_raphson (max_its_n of solve)
    max_its_b,   \* max_its of bisection (max_its_b of solve)
    pc,          \* where control is
    nr_x,        \* newton_raphson's local x_0
    nr_i,        \* iterations of newton_raphson's loop started
    nr_hist,     \* the values the updates of x_0 produced, in order
    nr_f, nr_df, \* invocations of f and of df by newton_raphson
    nr_out,      \* how newton_raphson ended
    b_x0, b_x1,  \* bisection's locals x_0, x_1
    b_i,         \* iterations of bisection's loop started
    b_mids,      \* the midpoints bisection computed, in order
    b_f,         \* invocations of f by bisection
    b_out,       \* how bisection ended
    out          \* how the call ended

inputs == <<call, ftab, ffault, df, a_x0, a_x1, eps, max_its_n, max_its_b>>
nr_vars == <<nr_x, nr_i, nr_hist, nr_f, nr_df, nr_out>>
b_vars == <<b_x0, b_x1, b_i, b_mids, b_f, b_out>>
vars == <<inputs, pc, nr_vars, b_vars, out>>

----------------------------------------------------------------------------
\* Exceptions and outcomes

Exc(kind, msg, a, b, n) == [kind |-> kind, msg |-> msg, a |-> a, b |-> b, n |-> n]
NoExc == Exc("none", "", 0, 0, 0)

Pending == [tag |-> "pending", val |-> 0, exc |-> NoExc]
Return(v) == [tag |-> "return", val |-> v, exc |-> NoExc]
Raise(e) == [tag |-> "raise", val |-> 0, exc |-> e]

\* raise ConvergenceError(f"Failed to converge near {x_0} after {max_its} iterations")
NewtonFailure(x, n) == Exc("ConvergenceError", "Failed to converge near", x, 0, n)
\* raise ConvergenceError(f"Failed to converge from vals {x_0} and {x_1} after ...")
BisectionFailure(x0, x1, n) ==
    Exc("ConvergenceError", "Failed to converge from vals", x0, x1, n)
\* raise ValueError("We require f(x_0) and f(x_1) to differ in sign")
InvalidBracket ==
    Exc("ValueError", "We require f(x_0) and f(x_1) to differ in sign", 0, 0, 0)
\* raise ConvergenceError("Neither method converged")
CombinedFailure == Exc("ConvergenceError", "Neither method converged", 0, 0, 0)
\* raise ValueError("NR method failed to converge and f(x_0)and f(x_1) differ ...")
IncompatibleFallback ==
    Exc("ValueError",
        "NR method failed to converge and f(x_0)and f(x_1) differ in sign so bisectioninappropriate",
        0, 0, 0)
\* x / 0 on Python numbers
DivisionByZero == Exc("ZeroDivisionError", "float division by zero", 0, 0, 0)

----------------------------------------------------------------------------
\* Arithmetic

Abs(v) == IF v < 0 THEN -v ELSE v

\* n / d for d > 0, rounded to nearest, ties to even
RoundPos(n, d) ==
    LET q == n \div d
        r == n - q * d
    IN  IF 2 * r < d THEN q
        ELSE IF 2 * r > d THEN q + 1
        ELSE IF q % 2 = 0 THEN q ELSE q + 1

\* n / d for d # 0
Div(n, d) == IF d > 0 THEN RoundPos(n, d) ELSE RoundPos(-n, -d)

----------------------------------------------------------------------------
\* The caller's functions

Nearest(x) == IF x < -2 THEN -2 ELSE IF x > 2 THEN 2 ELSE x

\* f(x) raises
FRaises(x) == ffault.on /\ Nearest(x) = ffault.at
\* the exception f(x) raises
FExc(x) == Exc(ffault.kind, "raised by f", x, 0, 0)
\* the value f(x) returns
FVal(x) == ftab[Nearest(x)]

\* df(x) raises
DfRaises(x) == df = "recip" /\ x = 0
DfExc(x) == Exc("ZeroDivisionError", "raised by df", x, 0, 0)
\* the value df(x) returns
DfVal(x) ==
    CASE df = "one" -> 1
      [] df = "minus_two" -> -2
      [] df = "two_x" -> 2 * x
      [] df = "recip" -> -1

----------------------------------------------------------------------------
\* Initial states: the arguments of one call

Tables == [Dom -> FNum]

Faults ==
    {[on |-> FALSE, at |-> 0, kind |-> "none"]}
        \cup {[on |-> TRUE, at |-> p, kind |-> k] : p \in Dom, k \in FaultKinds}

InitLocals ==
    /\ nr_x = a_x0 /\ nr_i = 0 /\ nr_hist = <<>> /\ nr_f = 0 /\ nr_df = 0
    /\ nr_out = Pending
    /\ b_x0 = a_x0 /\ b_x1 = a_x1 /\ b_i = 0 /\ b_mids = <<>> /\ b_f = 0
    /\ b_out = Pending
    /\ out = Pending

InitF ==
    /\ ftab \in Tables
    /\ ffault \in Faults
    \* the table's entry at the point where f raises is never read
    /\ ffault.on => ftab[ffault.at] = 0

\* newton_raphson(f, df, x_0, eps, max_its)
InitNewton ==
    /\ call = "newton_raphson"
    /\ InitF
    /\ df \in DfSet
    /\ a_x0 \in Dom /\ a_x1 = 0
    /\ eps \in EpsSet
    /\ max_its_n \in ItsSet /\ max_its_b = 0
    /\ pc = "nr_loop"
    /\ InitLocals

\* bisection(f, x_0, x_1, eps, max_its)
InitBisection ==
    /\ call = "bisection"
    /\ InitF
    /\ df = "one"
    /\ a_x0 \in Dom /\ a_x1 \in Dom
    /\ eps \in EpsSet
    /\ max_its_n = 0 /\ max_its_b \in ItsSet
    /\ pc = "b_check"
    /\ InitLocals

----------------------------------------------------------------------------
\* newton_raphson

\* The loop written with one iteration too many: range(max_its + 1).
NR_InRange_OffByOne(i, n) == i <= n

\* for i in range(max_its): another iteration starts
NR_InRange(i, n) == i < n

\* The test written without abs: f(x) < eps.
Converged_NoAbs(v, e) == v < e

\* abs(f(x)) < eps
Converged(v, e) == Abs(v) < e

\* x_0 - (f(x_0) / df(x_0))
NR_Update(x, fx, dfx) == x - Div(fx, dfx)

\* newton_raphson ends with outcome o, having invoked f and df nf and ndf
\* more times
NR_End(o, nf, ndf) ==
    /\ nr_out' = o
    /\ nr_f' = nr_f + nf /\ nr_df' = nr_df + ndf
    /\ nr_i' = nr_i + 1
    /\ IF call = "newton_raphson"
       THEN pc' = "done" /\ out' = o
       ELSE pc' = "solve_nr_done" /\ out' = out

\* One iteration of the loop: lines 35-37.
NR_Iterate ==
    /\ pc = "nr_loop"
    /\ NR_InRange(nr_i, max_its_n)
    /\ IF FRaises(nr_x)
       THEN NR_End(Raise(FExc(nr_x)), 1, 0) /\ UNCHANGED <<nr_x, nr_hist>>
       ELSE IF DfRaises(nr_x)
       THEN NR_End(Raise(DfExc(nr_x)), 1, 1) /\ UNCHANGED <<nr_x, nr_hist>>
       ELSE IF DfVal(nr_x) = 0
       THEN NR_End(Raise(DivisionByZero), 1, 1) /\ UNCHANGED <<nr_x, nr_hist>>
       ELSE LET x == NR_Update(nr_x, FVal(nr_x), DfVal(nr_x)) IN
            /\ nr_x' = x
            /\ nr_hist' = Append(nr_hist, x)
            /\ IF FRaises(x)
               THEN NR_End(Raise(FExc(x)), 2, 1)
               ELSE IF Converged(FVal(x), eps)
               THEN NR_End(Return(x), 2, 1)
               ELSE /\ nr_i' = nr_i + 1
                    /\ nr_f' = nr_f + 2 /\ nr_df' = nr_df + 1
                    /\ UNCHANGED <<pc, nr_out, out>>
    /\ UNCHANGED <<inputs, b_vars>>

\* The loop is exhausted: lines 38-39.
NR_Raise ==
    /\ pc = "nr_loop"
    /\ ~NR_InRange(nr_i, max_its_n)
    /\ nr_out' = Raise(NewtonFailure(nr_x, max_its_n))
    /\ IF call = "newton_raphson"
       THEN pc' = "done" /\ out' = nr_out'
       ELSE pc' = "solve_nr_done" /\ out' = out
    /\ UNCHANGED <<inputs, nr_x, nr_i, nr_hist, nr_f, nr_df, b_vars>>

NextNewton == NR_Iterate \/ NR_Raise

SpecNewton == InitNewton /\ [][NextNewton]_vars

----------------------------------------------------------------------------
\* bisection

\* The check written with >=: a product of 0 is rejected too.
BracketRejected_NonStrict(f0, f1) == f0 * f1 >= 0

\* f(x_0) * f(x_1) > 0: the interval is rejected
BracketRejected(f0, f1) == f0 * f1 > 0

\* for i in range(max_its): another iteration starts
B_InRange(i, n) == i < n

\* (x_0 + x_1) / 2
Mid(x0, x1) == Div(x0 + x1, 2)

\* The two elif bodies exchanged: x_1 = x_mid where the signs agree.
B_Branch_Swapped(fm, f0, e) ==
    IF Converged(fm, e) THEN "return"
    ELSE IF fm * f0 > 0 THEN "right"
    ELSE IF fm * f0 < 0 THEN "left"
    ELSE "none"

\* The second elif written with <=: a product of 0 moves x_1.
B_Branch_NonStrict(fm, f0, e) ==
    IF Converged(fm, e) THEN "return"
    ELSE IF fm * f0 > 0 THEN "left"
    ELSE IF fm * f0 <= 0 THEN "right"
    ELSE "none"

\* The branch of the if/elif/elif an iteration takes, given f(x_mid) and f(x_0).
B_Branch(fm, f0, e) ==
    IF Converged(fm, e) THEN "return"
    ELSE IF fm * f0 > 0 THEN "left"
    ELSE IF fm * f0 < 0 THEN "right"
    ELSE "none"

\* A third elif that evaluates f(x_mid) * f(x_0) once more.
B_Calls_ThirdElif(br) ==
    CASE br = "return" -> 1
      [] br = "left" -> 3
      [] br = "right" -> 5
      [] br = "none" -> 7

\* The invocations of f in an iteration that takes branch br: f(x_mid) in the
\* if, f(x_mid) and f(x_0) in each elif whose condition is evaluated.
B_Calls(br) ==
    CASE br = "return" -> 1
      [] br = "left" -> 3
      [] br = "right" -> 5
      [] br = "none" -> 5

\* bisection ends with outcome o, having invoked f nf more times
B_End(o, nf) ==
    /\ b_out' = o
    /\ b_f' = b_f + nf
    /\ IF call = "bisection"
       THEN pc' = "done" /\ out' = o
       ELSE pc' = "solve_b_done" /\ out' = out

\* The check at entry: lines 67-68.
B_Check ==
    /\ pc = "b_check"
    /\ IF FRaises(b_x0) THEN B_End(Raise(FExc(b_x0)), 1)
       ELSE IF FRaises(b_x1) THEN B_End(Raise(FExc(b_x1)), 2)
       ELSE IF BracketRejected(FVal(b_x0), FVal(b_x1))
       THEN B_End(Raise(InvalidBracket), 2)
       ELSE /\ pc' = "b_loop"
            /\ b_f' = b_f + 2
            /\ UNCHANGED <<b_out, out>>
    /\ UNCHANGED <<inputs, nr_vars, b_x0, b_x1, b_i, b_mids>>

\* One iteration of the loop: lines 70-76.
B_Iterate ==
    /\ pc = "b_loop"
    /\ B_InRange(b_i, max_its_b)
    /\ LET x_mid == Mid(b_x0, b_x1) IN
       /\ b_i' = b_i + 1
       /\ b_mids' = Append(b_mids, x_mid)
       /\ IF FRaises(x_mid)
          THEN /\ B_End(Raise(FExc(x_mid)), 1)
               /\ UNCHANGED <<b_x0, b_x1>>
          ELSE LET br == B_Branch(FVal(x_mid), FVal(b_x0), eps) IN
               IF br = "return"
               THEN /\ B_End(Return(x_mid), B_Calls(br))
                    /\ UNCHANGED <<b_x0, b_x1>>
               ELSE /\ b_x0' = IF br = "left" THEN x_mid ELSE b_x0
                    /\ b_x1' = IF br = "right" THEN x_mid ELSE b_x1
                    /\ b_f' = b_f + B_Calls(br)
                    /\ UNCHANGED <<pc, b_out, out>>
    /\ UNCHANGED <<inputs, nr_vars>>

\* The loop is exhausted: lines 77-78.
B_Raise ==
    /\ pc = "b_loop"
    /\ ~B_InRange(b_i, max_its_b)
    /\ B_End(Raise(BisectionFailure(b_x0, b_x1, max_its_b)), 0)
    /\ UNCHANGED <<inputs, nr_vars, b_x0, b_x1, b_i, b_mids>>

NextBisection == B_Check \/ B_Iterate \/ B_Raise

SpecBisection == InitBisection /\ [][NextBisection]_vars

----------------------------------------------------------------------------
\* solve

\* The right ends x_1 solve is called with.
SolveX1 == {-1, 2}

\* solve(f, df, x_0, x_1, eps, max_its_n, max_its_b)
InitSolve ==
    /\ call = "solve"
    /\ InitF
    /\ df \in DfSet
    /\ a_x0 \in Dom /\ a_x1 \in SolveX1
    /\ eps \in EpsSet
    /\ max_its_n \in ItsSet /\ max_its_b \in ItsSet
    /\ pc = "solve_try"
    /\ InitLocals

\* A bare except: around newton_raphson.
NewtonCaught_Any(o) == o.tag = "raise"

\* except ConvergenceError: around newton_raphson
NewtonCaught(o) == o.tag = "raise" /\ o.exc.kind = "ConvergenceError"

\* No handler for ValueError: bisection's own error leaves solve.
FallbackOutcome_Reraise(o) ==
    IF o.tag = "raise" /\ o.exc.kind = "ConvergenceError"
    THEN Raise(CombinedFailure)
    ELSE o

\* except Exception: in place of except ConvergenceError: around bisection.
FallbackOutcome_CatchAll(o) ==
    IF o.tag = "raise" /\ o.exc.kind = "ValueError"
    THEN Raise(IncompatibleFallback)
    ELSE IF o.tag = "raise"
    THEN Raise(CombinedFailure)
    ELSE o

\* The handlers around bisection: what solve makes of bisection's outcome o.
FallbackOutcome(o) ==
    IF o.tag = "raise" /\ o.exc.kind = "ConvergenceError"
    THEN Raise(CombinedFailure)
    ELSE IF o.tag = "raise" /\ o.exc.kind = "ValueError"
    THEN Raise(IncompatibleFallback)
    ELSE o

\* try: newton_raphson(f, df, x_0, eps, max_its_n), line 113
Solve_Try ==
    /\ pc = "solve_try"
    /\ pc' = "nr_loop"
    /\ UNCHANGED <<inputs, nr_vars, b_vars, out>>

\* newton_raphson ended and no handler applies: solve ends as it did, line 113
Solve_Direct ==
    /\ pc = "solve_nr_done"
    /\ ~NewtonCaught(nr_out)
    /\ out' = nr_out
    /\ pc' = "done"
    /\ UNCHANGED <<inputs, nr_vars, b_vars>>

\* except ConvergenceError: try bisection(f, x_0, x_1, eps, max_its_b),
\* lines 114-116
Solve_Fallback ==
    /\ pc = "solve_nr_done"
    /\ NewtonCaught(nr_out)
    /\ pc' = "b_check"
    /\ UNCHANGED <<inputs, nr_vars, b_vars, out>>

\* bisection ended: lines 116-122
Solve_Finish ==
    /\ pc = "solve_b_done"
    /\ out' = FallbackOutcome(b_out)
    /\ pc' = "done"
    /\ UNCHANGED <<inputs, nr_vars, b_vars>>

NextSolve ==
    \/ Solve_Try
    \/ NR_Iterate
    \/ NR_Raise
    \/ Solve_Direct
    \/ Solve_Fallback
    \/ B_Check
    \/ B_Iterate
    \/ B_Raise
    \/ Solve_Finish

SpecSolve == InitSolve /\ [][NextSolve]_vars

----------------------------------------------------------------------------
\* Properties of solve's error reporting

\* solve's newton_raphson failed to converge and its bisection rejected the
\* interval
FallbackRejected ==
    /\ call = "solve" /\ pc = "done"
    /\ NewtonCaught(nr_out)
    /\ b_out = Raise(InvalidBracket)

\* C1, as stated: when newton_raphson failed to converge and bisection rejected
\* the interval, solve raises an error of another kind than the one bisection
\* raises for an interval it rejects.
C1_DistinctKind ==
    FallbackRejected => out.tag = "raise" /\ out.exc.kind # InvalidBracket.kind

\* C1, amended: in that case solve raises an error of the same kind as
\* bisection's (ValueError), which differs from it in its message only.
C1_SameKindOtherMessage ==
    FallbackRejected =>
        /\ out.tag = "raise"
        /\ out.exc.kind = InvalidBracket.kind
        /\ out.exc.msg # InvalidBracket.msg
        /\ out.exc = IncompatibleFallback

C1_Witness == FallbackRejected /\ b_f = 2

\* The kinds of exception solve has a handler for.
HandledKinds == {"ConvergenceError", "ValueError"}

Unhandled(o) == o.tag = "raise" /\ o.exc.kind \notin HandledKinds

BisectionEntered ==
    \/ pc \in {"b_check", "b_loop", "solve_b_done"}
    \/ b_f > 0
    \/ b_mids # <<>>
    \/ b_out # Pending

\* C8: solve enters bisection only after newton_raphson raised a
\* ConvergenceError; when newton_raphson returns a value, bisection evaluates
\* f nowhere and solve returns that value.
C8_BisectionOnlyAfterFailure ==
    call = "solve" =>
        /\ BisectionEntered =>
               /\ nr_out.tag = "raise"
               /\ nr_out.exc.kind = "ConvergenceError"
        /\ nr_out.tag = "return" =>
               /\ ~BisectionEntered
               /\ pc \in {"solve_nr_done", "done"}
               /\ pc = "done" => out = nr_out

C8_Witness ==
    /\ call = "solve" /\ pc = "done"
    /\ nr_out.tag = "return"
    /\ out = Return(nr_x)
    /\ Len(nr_hist) = MaxIts

----------------------------------------------------------------------------
\* Properties of newton_raphson

\* The value the k-th update produced met the tolerance.
UpdateMet(k) == ~FRaises(nr_hist[k]) /\ Abs(FVal(nr_hist[k])) < eps

\* C6, as stated: newton_raphson invokes f and df at most 2 * max_its times
\* in total.
C6_TwoCallsPerIteration ==
    call = "newton_raphson" => nr_f + nr_df <= 2 * max_its_n

\* C6, amended: newton_raphson invokes f at most 2 * max_its times and df at
\* most max_its times, 3 * max_its invocations in total.
C6_ThreeCallsPerIteration ==
    call = "newton_raphson" =>
        /\ nr_f <= 2 * max_its_n
        /\ nr_df <= max_its_n
        /\ nr_f + nr_df <= 3 * max_its_n

C6_Witness ==
    /\ call = "newton_raphson" /\ pc = "done"
    /\ max_its_n = MaxIts
    /\ nr_f + nr_df = 3 * max_its_n

\* C7: newton_raphson updates x at most max_its times; it returns the value of
\* the latest update, and only when that is the first update to meet the
\* tolerance (the initial value is not tested); when no update meets it, it
\* raises a ConvergenceError that carries the value of the last update and
\* max_its.
C7_NewtonOutcome ==
    call = "newton_raphson" =>
        /\ Len(nr_hist) <= max_its_n
        /\ nr_out.tag = "return" =>
               /\ Len(nr_hist) >= 1
               /\ nr_out.val = nr_hist[Len(nr_hist)]
               /\ UpdateMet(Len(nr_hist))
               /\ \A k \in 1..(Len(nr_hist) - 1) : ~UpdateMet(k)
        /\ (nr_out.tag = "raise" /\ nr_out.exc.kind = "ConvergenceError") =>
               /\ Len(nr_hist) = max_its_n
               /\ \A k \in 1..Len(nr_hist) : ~UpdateMet(k)
               /\ nr_out.exc = NewtonFailure(nr_hist[max_its_n], max_its_n)
        /\ (pc = "done" /\ Len(nr_hist) = max_its_n
                /\ \A k \in 1..Len(nr_hist) : ~FRaises(nr_hist[k]) /\ ~UpdateMet(k)) =>
               out = Raise(NewtonFailure(nr_hist[max_its_n], max_its_n))

\* The budget is exhausted although the initial value met the tolerance.
C7_Witness ==
    /\ call = "newton_raphson" /\ pc = "done"
    /\ max_its_n = MaxIts
    /\ out = Raise(NewtonFailure(nr_x, max_its_n))
    /\ ~FRaises(a_x0) /\ Abs(FVal(a_x0)) < eps
    /\ nr_x # a_x0

----------------------------------------------------------------------------
\* Properties of bisection

\* f(x_0) * f(x_1) of the arguments, where f returns at both
EntryProduct == FVal(a_x0) * FVal(a_x1)
EntryReturns == ~FRaises(a_x0) /\ ~FRaises(a_x1)

Min(a, b) == IF a <= b THEN a ELSE b
Max(a, b) == IF a >= b THEN a ELSE b

\* x lies between the arguments x_0 and x_1
InBracket(x) == Min(a_x0, a_x1) <= x /\ x <= Max(a_x0, a_x1)

\* The k-th midpoint met the tolerance.
MidMet(k) == ~FRaises(b_mids[k]) /\ Abs(FVal(b_mids[k])) < eps

\* C3, as stated: when f(x_0) * f(x_1) < 0, bisection returns a value within
\* [x_0, x_1] at which |f| < eps.
C3_AlwaysReturns ==
    (call = "bisection" /\ pc = "done" /\ EntryReturns /\ EntryProduct < 0) =>
        /\ out.tag = "return"
        /\ InBracket(out.val)
        /\ Abs(FVal(out.val)) < eps

\* C3, amended: when f(x_0) * f(x_1) < 0, bisection either returns a value
\* within [x_0, x_1] at which |f| < eps, or raises a ConvergenceError after
\* max_its midpoints none of which met the tolerance, or ends with an
\* exception f raised at a midpoint.
C3_ReturnsOrFails ==
    (call = "bisection" /\ pc = "done" /\ EntryReturns /\ EntryProduct < 0) =>
        \/ /\ out.tag = "return"
           /\ InBracket(out.val)
           /\ ~FRaises(out.val)
           /\ Abs(FVal(out.val)) < eps
        \/ /\ out = Raise(BisectionFailure(b_x0, b_x1, max_its_b))
           /\ Len(b_mids) = max_its_b
           /\ \A k \in 1..Len(b_mids) : ~MidMet(k)
        \/ /\ Len(b_mids) >= 1
           /\ FRaises(b_mids[Len(b_mids)])
           /\ out = Raise(FExc(b_mids[Len(b_mids)]))

C3_Witness ==
    /\ call = "bisection" /\ pc = "done"
    /\ EntryReturns /\ EntryProduct < 0
    /\ out.tag = "return"
    /\ Len(b_mids) = MaxIts
    /\ a_x0 > a_x1

\* C4: bisection raises its ValueError exactly when f(x_0) * f(x_1) > 0 for
\* its arguments (a product of 0 is accepted), whatever max_its is; it does so
\* before any iteration, having computed no midpoint.
C4_RejectsExactlySameSign ==
    call = "bisection" =>
        /\ pc # "b_check" =>
               (b_out = Raise(InvalidBracket) <=> (EntryReturns /\ EntryProduct > 0))
        /\ b_out = Raise(InvalidBracket) =>
               /\ b_i = 0
               /\ b_mids = <<>>
               /\ b_f = 2
               /\ out = b_out

C4_Witness ==
    /\ call = "bisection" /\ pc = "done"
    /\ out = Raise(InvalidBracket)
    /\ max_its_b = MaxIts

\* C5, as stated: bisection invokes f at most max_its + 2 times.
C5_OneCallPerIteration ==
    call = "bisection" => b_f <= max_its_b + 2

\* C5, amended: bisection invokes f at most 5 * max_its + 2 times: twice at
\* entry and up to five times in an iteration.
C5_FiveCallsPerIteration ==
    call = "bisection" => b_f <= 5 * max_its_b + 2

C5_Witness ==
    /\ call = "bisection" /\ pc = "done"
    /\ max_its_b = MaxIts
    /\ b_f = 5 * max_its_b + 2

\* C9, as stated: in every state of the loop f(x_0) * f(x_1) < 0.
C9_StrictBracket ==
    (call = "bisection" /\ pc = "b_loop") => FVal(b_x0) * FVal(b_x1) < 0

\* C9, amended: in every state of the loop f(x_0) * f(x_1) <= 0, and
\* f(x_0) * f(x_1) < 0 when that held for the arguments.
C9_Bracket ==
    (call = "bisection" /\ pc = "b_loop") =>
        /\ ~FRaises(b_x0) /\ ~FRaises(b_x1)
        /\ FVal(b_x0) * FVal(b_x1) <= 0
        /\ EntryProduct < 0 => FVal(b_x0) * FVal(b_x1) < 0

\* an iteration has moved x_0 and another iteration follows
C9_Witness ==
    /\ call = "bisection" /\ pc = "b_loop"
    /\ B_InRange(b_i, max_its_b)
    /\ b_x0 # a_x0
    /\ FVal(b_x0) * FVal(b_x1) < 0

\* The next iteration finds f(x_mid) * f(x_0) = 0 and |f(x_mid)| >= eps.
StallHere ==
    /\ call = "bisection" /\ pc = "b_loop"
    /\ ~FRaises(Mid(b_x0, b_x1))
    /\ FVal(Mid(b_x0, b_x1)) * FVal(b_x0) = 0
    /\ Abs(FVal(Mid(b_x0, b_x1))) >= eps

\* C10: an iteration that finds f(x_mid) * f(x_0) = 0 and |f(x_mid)| >= eps
\* changes neither x_0 nor x_1, the iteration after it finds the same, and
\* when the budget is exhausted the ConvergenceError carries that pair.
C10_StallPersists ==
    [][StallHere =>
          /\ b_x0' = b_x0 /\ b_x1' = b_x1
          /\ \/ /\ StallHere'
                /\ b_mids' = Append(b_mids, Mid(b_x0, b_x1))
             \/ /\ pc' = "done"
                /\ Len(b_mids) = max_its_b
                /\ out' = Raise(BisectionFailure(b_x0, b_x1, max_its_b))]_vars

\* the bracket never moved and every midpoint was the same
C10_Witness ==
    /\ call = "bisection" /\ pc = "done"
    /\ max_its_b = MaxIts
    /\ out = Raise(BisectionFailure(a_x0, a_x1, max_its_b))
    /\ \A k \in 1..Len(b_mids) : b_mids[k] = Mid(a_x0, a_x1)
    /\ FVal(Mid(a_x0, a_x1)) * FVal(a_x0) = 0
    /\ Mid(a_x0, a_x1) # a_x0 /\ Mid(a_x0, a_x1) # a_x1

====
